---------------------------- MODULE Spec2Model ----------------------------
(***************************************************************************)
(* The upload-analyze-display session of VoiceGuardPage (src/app/page.tsx).*)
(*                                                                         *)
(* The component owns four React state cells (file, result, isLoading,     *)
(* error).  They are written by three event handlers (onDrop,              *)
(* handleAnalyze, handleReset) and by the continuations of the async       *)
(* handleAnalyze after each of its two awaits (fetch, response.json()).    *)
(* JavaScript runs each handler and each continuation to completion, so    *)
(* every action below is one such run.                                     *)
(*                                                                         *)
(* Two specifications are given:                                           *)
(*   Spec          the page as rendered: a handler runs only when the      *)
(*                 control it is attached to is rendered and enabled;      *)
(*   SpecHandlers  the three handlers called directly, in any state.       *)
(***************************************************************************)
EXTENDS Naturals, Sequences, FiniteSets, TLC

\* Longest acceptedFiles list handed to onDrop when it is called directly.
MaxFiles == 2

\* Most handleAnalyze invocations suspended at an await at the same time
\* when the handler is called directly.
MaxPending == 2

\* The history counters (fetch calls, accepted Analyze clicks) stop
\* counting here.
MaxCount == 2

(***************************************************************************)
(* Values.  A nullable cell holds NULL or Some(v).  Text is a sequence of  *)
(* words, so that a template literal is a concatenation and "contains" is  *)
(* an infix test.                                                          *)
(***************************************************************************)
NULL == <<>>

Some(v) == <<v>>

\* File handles the picker can deliver.
Files == {"a.wav", "b.mp3", "c.flac"}

\* Response bodies that follow the AnalysisResult interface; numbers are
\* in units of 1/100000.  The client does not check that the predicted
\* class is the likelier one, so one body predicts the less likely class.
Bodies ==
  { [prediction |-> "spoof",
     probabilities |-> [bonafide |-> 8000, spoof |-> 92000],
     spectrogram_png |-> "data:spoof"],
    [prediction |-> "bonafide",
     probabilities |-> [bonafide |-> 92000, spoof |-> 8000],
     spectrogram_png |-> "data:bonafide"],
    [prediction |-> "spoof",
     probabilities |-> [bonafide |-> 60000, spoof |-> 40000],
     spectrogram_png |-> "data:threshold"],
    [prediction |-> "bonafide",
     probabilities |-> [bonafide |-> 12346, spoof |-> 87654],
     spectrogram_png |-> "data:rounded"] }

\* response.statusText of a non-2xx response; empty over HTTP/2.
StatusTexts == { <<>>, <<"Not", "Found">>, <<"Internal", "Server", "Error">> }

\* What fetch() or response.json() can reject with: a value whose message
\* property is missing, empty, or a text.
Thrown ==
  { [message |-> NULL],
    [message |-> Some(<<>>)],
    [message |-> Some(<<"Failed", "to", "fetch">>)] }

\* Mutant: the message leaves the status text out.
ServerErrorMessage_noStatusText(statusText) == <<"Server", "error">>

\* `Server error: ${response.statusText}`
ServerErrorMessage(statusText) == <<"Server", "error:">> \o statusText

\* new Error(message)
Error(message) == [message |-> Some(message)]

\* 'An unexpected error occurred. Please try again.'
Fallback == <<"An", "unexpected", "error", "occurred.", "Please", "try", "again.">>

\* Mutant: a ?? b, which keeps the empty string.
OrElse_nullish(a, b) == IF a = NULL THEN b ELSE a[1]

\* a || b on an optional text: b when a is undefined or the empty string.
OrElse(a, b) == IF a = NULL \/ a = Some(<<>>) THEN b ELSE a[1]

\* acceptedFiles lists of at most n files.
FileLists(n) == UNION { [1 .. k -> Files] : k \in 0 .. n }

\* s without its i-th element.
RemoveAt(s, i) == SubSeq(s, 1, i - 1) \o SubSeq(s, i + 1, Len(s))

(***************************************************************************)
(* State.                                                                  *)
(*   file, result, isLoading, error   the four useState cells              *)
(*   pending   the handleAnalyze invocations suspended at an await, each   *)
(*             with the file it captured, the await it is at, and whether  *)
(*             it has called response.json()                               *)
(*   requests  history: the number of fetch calls made so far              *)
(*   clicks    history: the number of clicks on Analyze that dispatched    *)
(*             the handler with a file selected                            *)
(*   last      history: the event that produced this state, its argument   *)
(*             and, for a continuation, the invocation it resumed          *)
(***************************************************************************)
VARIABLES file, result, isLoading, error, pending, requests, clicks, last

cells == <<file, result, isLoading, error>>

session == <<file, result, isLoading, error, pending, requests>>

vars == <<file, result, isLoading, error, pending, requests, clicks, last>>

\* A history counter one step on.
Bump(n) == IF n < MaxCount THEN n + 1 ELSE n

NoReq == [file |-> "", stage |-> "none", jsonCalled |-> FALSE]

Event(op, arg, req) == [op |-> op, arg |-> arg, req |-> req]

Init ==
  /\ file = NULL
  /\ result = NULL
  /\ isLoading = FALSE
  /\ error = NULL
  /\ pending = <<>>
  /\ requests = 0
  /\ clicks = 0
  /\ last = Event("init", <<>>, NoReq)

(***************************************************************************)
(* The rendered controls (the JSX returned by VoiceGuardPage).             *)
(***************************************************************************)
\* {!result && ( <UploadZone .../> <AnalyzeButton .../> )}
UploadZoneRendered == result = NULL

AnalyzeButtonRendered == result = NULL

\* Mutant: disabled={!file}, the loading flag forgotten.
AnalyzeButtonDisabled_ignoresLoading == file = NULL

\* disabled={!file || isLoading}
AnalyzeButtonDisabled == file = NULL \/ isLoading

\* Mutant: ResultDisplay, and its Reset button, is rendered unconditionally.
ResetButtonRendered_always == TRUE

\* {result && <ResultDisplay result={result} onReset={handleReset} />}
ResetButtonRendered == result # NULL

\* useDropzone({ onDrop, accept, multiple: false }): the picker hands over
\* no file (all rejected) or exactly one.
PickerLists == FileLists(1)

(***************************************************************************)
(* The handlers.  Each states its effect on the session (the four cells    *)
(* and the suspended invocations).                                         *)
(***************************************************************************)
\* Mutant: the drop also clears the result.
onDrop_clearsResult(acceptedFiles) ==
  IF Len(acceptedFiles) > 0
  THEN /\ error' = NULL
       /\ result' = NULL
       /\ file' = Some(acceptedFiles[1])
       /\ UNCHANGED <<isLoading, pending, requests>>
  ELSE UNCHANGED session

\* Mutant: the last accepted file is taken instead of the first.
onDrop_takesLast(acceptedFiles) ==
  IF Len(acceptedFiles) > 0
  THEN /\ error' = NULL
       /\ file' = Some(acceptedFiles[Len(acceptedFiles)])
       /\ UNCHANGED <<result, isLoading, pending, requests>>
  ELSE UNCHANGED session

onDrop(acceptedFiles) ==
  IF Len(acceptedFiles) > 0
  THEN /\ error' = NULL
       /\ file' = Some(acceptedFiles[1])
       /\ UNCHANGED <<result, isLoading, pending, requests>>
  ELSE UNCHANGED session

\* Mutant: setError(null) is missing.
handleAnalyze_keepsError ==
  IF file = NULL
  THEN UNCHANGED session
  ELSE /\ isLoading' = TRUE
       /\ result' = NULL
       /\ pending' = Append(pending,
                       [file |-> file[1], stage |-> "fetch", jsonCalled |-> FALSE])
       /\ requests' = Bump(requests)
       /\ UNCHANGED <<file, error>>

\* Mutant: the guard `if (!file) return` is missing.
handleAnalyze_noFileGuard ==
  /\ isLoading' = TRUE
  /\ error' = NULL
  /\ result' = NULL
  /\ pending' = Append(pending,
                  [file |-> IF file = NULL THEN "" ELSE file[1],
                   stage |-> "fetch", jsonCalled |-> FALSE])
  /\ requests' = Bump(requests)
  /\ UNCHANGED file

\* handleAnalyze up to its first await: the guard, the three setters, the
\* FormData built from the captured file, the fetch call.
handleAnalyze ==
  IF file = NULL
  THEN UNCHANGED session
  ELSE /\ isLoading' = TRUE
       /\ error' = NULL
       /\ result' = NULL
       /\ pending' = Append(pending,
                       [file |-> file[1], stage |-> "fetch", jsonCalled |-> FALSE])
       /\ requests' = Bump(requests)
       /\ UNCHANGED file

\* Mutant: setFile(null) is missing.
handleReset_keepsFile ==
  /\ result' = NULL
  /\ error' = NULL
  /\ UNCHANGED <<file, isLoading, pending, requests>>

\* Mutant: setResult(null) is missing.
handleReset_keepsResult ==
  /\ file' = NULL
  /\ error' = NULL
  /\ UNCHANGED <<result, isLoading, pending, requests>>

\* Mutant: setError(null) is missing.
handleReset_keepsError ==
  /\ file' = NULL
  /\ result' = NULL
  /\ UNCHANGED <<error, isLoading, pending, requests>>

handleReset ==
  /\ file' = NULL
  /\ result' = NULL
  /\ error' = NULL
  /\ UNCHANGED <<isLoading, pending, requests>>

\* Mutant: the finally block is missing.
catchFinally_noFinally(err) ==
  /\ error' = Some(OrElse(err.message, Fallback))
  /\ UNCHANGED isLoading

\* catch (err) { setError(err.message || '...') } finally { setIsLoading(false) }
catchFinally(err) ==
  /\ error' = Some(OrElse(err.message, Fallback))
  /\ isLoading' = FALSE

\* Mutant: a rejected fetch is sent again instead of being reported.
fetchRejected_retries(i, err) ==
  /\ pending[i].stage = "fetch"
  /\ requests' = Bump(requests)
  /\ UNCHANGED <<cells, pending>>

\* await fetch(...) rejects: the invocation ends in catch and finally.
fetchRejected(i, err) ==
  /\ pending[i].stage = "fetch"
  /\ catchFinally(err)
  /\ pending' = RemoveAt(pending, i)
  /\ UNCHANGED <<file, result, requests>>

\* await fetch(...) resolves with !response.ok: the handler throws its own
\* Error, without calling response.json(), and ends in catch and finally.
responseNotOk(i, statusText) ==
  /\ pending[i].stage = "fetch"
  /\ catchFinally(Error(ServerErrorMessage(statusText)))
  /\ pending' = RemoveAt(pending, i)
  /\ UNCHANGED <<file, result, requests>>

\* await fetch(...) resolves with response.ok: the handler calls
\* response.json() and is suspended again.
responseOk(i) ==
  /\ pending[i].stage = "fetch"
  /\ pending' = [pending EXCEPT ![i].stage = "json", ![i].jsonCalled = TRUE]
  /\ UNCHANGED <<cells, requests>>

\* Mutant: a body that arrives for a file no longer selected is dropped.
jsonResolved_ignoresStale(i, data) ==
  /\ pending[i].stage = "json"
  /\ result' = IF file = Some(pending[i].file) THEN Some(data) ELSE result
  /\ isLoading' = FALSE
  /\ pending' = RemoveAt(pending, i)
  /\ UNCHANGED <<file, error, requests>>

\* Mutant: setIsLoading(false) is not reached on the success path.
jsonResolved_noFinally(i, data) ==
  /\ pending[i].stage = "json"
  /\ result' = Some(data)
  /\ pending' = RemoveAt(pending, i)
  /\ UNCHANGED <<file, isLoading, error, requests>>

\* Mutant: setResult(data) is missing.
jsonResolved_skipsSetResult(i, data) ==
  /\ pending[i].stage = "json"
  /\ isLoading' = FALSE
  /\ pending' = RemoveAt(pending, i)
  /\ UNCHANGED <<file, result, error, requests>>

\* await response.json() resolves: setResult(data), then finally.
jsonResolved(i, data) ==
  /\ pending[i].stage = "json"
  /\ result' = Some(data)
  /\ isLoading' = FALSE
  /\ pending' = RemoveAt(pending, i)
  /\ UNCHANGED <<file, error, requests>>

\* await response.json() rejects (the body is not JSON): catch and finally.
jsonRejected(i, err) ==
  /\ pending[i].stage = "json"
  /\ catchFinally(err)
  /\ pending' = RemoveAt(pending, i)
  /\ UNCHANGED <<file, result, requests>>

(***************************************************************************)
(* The values ResultDisplay derives from the result.  A number is an       *)
(* integer count of 1/100000; the text of toFixed(2) is the pair           *)
(* <<whole part, hundredths>>, so "92.00" is <<92, 0>>.                    *)
(***************************************************************************)
\* x * 100
Times100(x) == x * 100

\* x.toFixed(2): x rounded to the nearest hundredth.
ToFixed2(x) ==
  LET hundredths == (x + 500) \div 1000
  IN  <<hundredths \div 100, hundredths % 100>>

\* Mutant: the larger of the two probabilities is shown as the confidence.
confidence_larger(r) ==
  LET p == r.probabilities
  IN  ToFixed2(Times100(IF p.spoof > p.bonafide THEN p.spoof ELSE p.bonafide))

\* (result.probabilities[result.prediction] * 100).toFixed(2)
confidence(r) == ToFixed2(Times100(r.probabilities[r.prediction]))

\* (result.probabilities.spoof * 100).toFixed(2)
spoofPercent(r) == ToFixed2(Times100(r.probabilities.spoof))

\* (result.probabilities.bonafide * 100).toFixed(2)
bonafidePercent(r) == ToFixed2(Times100(r.probabilities.bonafide))

(***************************************************************************)
(* Request settlements, common to both specifications.                     *)
(***************************************************************************)
FetchRejects ==
  \E i \in 1 .. Len(pending), err \in Thrown :
    /\ fetchRejected(i, err)
    /\ last' = Event("fetchRejected", err, pending[i])
    /\ UNCHANGED clicks

ResponseNotOk ==
  \E i \in 1 .. Len(pending), statusText \in StatusTexts :
    /\ responseNotOk(i, statusText)
    /\ last' = Event("responseNotOk", statusText, pending[i])
    /\ UNCHANGED clicks

ResponseOk ==
  \E i \in 1 .. Len(pending) :
    /\ responseOk(i)
    /\ last' = Event("responseOk", <<>>, pending[i])
    /\ UNCHANGED clicks

JsonResolves ==
  \E i \in 1 .. Len(pending), data \in Bodies :
    /\ jsonResolved(i, data)
    /\ last' = Event("jsonResolved", data, pending[i])
    /\ UNCHANGED clicks

JsonRejects ==
  \E i \in 1 .. Len(pending), err \in Thrown :
    /\ jsonRejected(i, err)
    /\ last' = Event("jsonRejected", err, pending[i])
    /\ UNCHANGED clicks

(***************************************************************************)
(* The page as rendered.  A drop reaches onDrop only through the upload    *)
(* zone, a click reaches handleAnalyze only through an enabled Analyze     *)
(* button, and handleReset only through the button of ResultDisplay.       *)
(***************************************************************************)
Drop ==
  \E acceptedFiles \in PickerLists :
    /\ UploadZoneRendered
    /\ onDrop(acceptedFiles)
    /\ last' = Event("drop", acceptedFiles, NoReq)
    /\ UNCHANGED clicks

\* Mutant: the click runs the handler whether the button is disabled or not.
ClickAnalyze_ignoresDisabled ==
  /\ AnalyzeButtonRendered
  /\ handleAnalyze
  /\ clicks' = IF file = NULL THEN clicks ELSE Bump(clicks)
  /\ last' = Event("analyze", <<>>, NoReq)

\* A click on the disabled button dispatches no onClick.
ClickAnalyze ==
  /\ AnalyzeButtonRendered
  /\ IF AnalyzeButtonDisabled
     THEN UNCHANGED <<session, clicks>>
     ELSE handleAnalyze /\ clicks' = Bump(clicks)
  /\ last' = Event("analyze", <<>>, NoReq)

ClickReset ==
  /\ ResetButtonRendered
  /\ handleReset
  /\ last' = Event("reset", <<>>, NoReq)
  /\ UNCHANGED clicks

Next ==
  \/ Drop
  \/ ClickAnalyze
  \/ ClickReset
  \/ FetchRejects
  \/ ResponseNotOk
  \/ ResponseOk
  \/ JsonResolves
  \/ JsonRejects

Spec == Init /\ [][Next]_vars

(***************************************************************************)
(* The rendered page with a network that answers: a request that is in     *)
(* flight is eventually settled, and the event loop then runs the          *)
(* continuation of its handleAnalyze invocation.  Nothing is assumed of    *)
(* the user.                                                               *)
(***************************************************************************)
Settle ==
  \/ FetchRejects
  \/ ResponseNotOk
  \/ ResponseOk
  \/ JsonResolves
  \/ JsonRejects

FairSpec == Spec /\ WF_vars(Settle)

(***************************************************************************)
(* The handlers called directly, in any state and with any list.           *)
(***************************************************************************)
CallOnDrop ==
  \E acceptedFiles \in FileLists(MaxFiles) :
    /\ onDrop(acceptedFiles)
    /\ last' = Event("drop", acceptedFiles, NoReq)
    /\ UNCHANGED clicks

CallHandleAnalyze ==
  /\ file # NULL => Len(pending) < MaxPending
  /\ handleAnalyze
  /\ clicks' = IF file = NULL THEN clicks ELSE Bump(clicks)
  /\ last' = Event("analyze", <<>>, NoReq)

CallHandleReset ==
  /\ handleReset
  /\ last' = Event("reset", <<>>, NoReq)
  /\ UNCHANGED clicks

NextHandlers ==
  \/ CallOnDrop
  \/ CallHandleAnalyze
  \/ CallHandleReset
  \/ FetchRejects
  \/ ResponseNotOk
  \/ ResponseOk
  \/ JsonResolves
  \/ JsonRejects

SpecHandlers == Init /\ [][NextHandlers]_vars

(***************************************************************************)
(* Properties.                                                             *)
(***************************************************************************)
\* The settlements that end in the catch block.
Failures == {"fetchRejected", "responseNotOk", "jsonRejected"}

\* s contains t as a contiguous part.
Contains(s, t) ==
  \E i \in 0 .. Len(s) :
    /\ i + Len(t) <= Len(s)
    /\ SubSeq(s, i + 1, i + Len(t)) = t

\* C1: on the rendered page, under every interleaving of drops, Analyze
\* clicks, settlements and Reset clicks, result and error are never both
\* non-null.
C1_ResultErrorExclusive == ~(result # NULL /\ error # NULL)

\* A failed settlement has set error while result is null.
C1_Witness == last.op \in Failures /\ error # NULL /\ result = NULL

\* C2: on the rendered page at most one handleAnalyze invocation is
\* suspended (one request issued and not settled) at any time.
C2_AtMostOneInFlight == Len(pending) <= 1

\* One request is in flight, already at its second await.
C2_Witness == Len(pending) = 1 /\ pending[1].stage = "json" /\ isLoading

\* C3: a click on Analyze while isLoading is true changes none of the four
\* cells and issues no request.
C3_AnalyzeWhileLoadingNoOp ==
  [][(last'.op = "analyze" /\ isLoading) => UNCHANGED session]_vars

\* Analyze was clicked while the one request was awaiting its body: an
\* accepted click leaves its request at the fetch.
C3_Witness ==
  /\ last.op = "analyze"
  /\ isLoading
  /\ Len(pending) = 1
  /\ pending[1].stage = "json"

\* C4 as stated: after handleReset, from any state, the file, the result
\* and the error are null and isLoading is false.
C4_ResetClearsLoading ==
  last.op = "reset" =>
    file = NULL /\ result = NULL /\ error = NULL /\ isLoading = FALSE

\* C4 amended: handleReset, from any state, sets the file, the result and
\* the error to null and leaves isLoading and the suspended invocations as
\* they were.
C4_ResetClearsCellsKeepsLoading ==
  [][last'.op = "reset" =>
       /\ file' = NULL
       /\ result' = NULL
       /\ error' = NULL
       /\ isLoading' = isLoading
       /\ pending' = pending]_vars

\* handleReset has run while a request was in flight.
C4_Witness ==
  /\ last.op = "reset"
  /\ file = NULL /\ result = NULL /\ error = NULL
  /\ isLoading
  /\ Len(pending) > 0

\* C5: on the rendered page isLoading is true exactly while a request is
\* in flight (issued by handleAnalyze and not yet settled).
C5_LoadingIffInFlight == isLoading <=> Len(pending) > 0

\* A settlement, successful or failed, has just ended the loading.
C5_Witness ==
  /\ last.op \in Failures \cup {"jsonResolved"}
  /\ ~isLoading
  /\ pending = <<>>

\* C6 as stated: while a request is in flight, neither a drop nor a click
\* on Analyze changes any of the four cells.
C6_AnalyzingFreezesControls ==
  [][(Len(pending) > 0 /\ last'.op \in {"drop", "analyze"}) =>
       UNCHANGED cells]_vars

\* C7: a drop with a non-empty list selects the first file of the list and
\* clears the error; a drop with an empty list changes nothing.
C7_DropSelectsFirst ==
  [][last'.op = "drop" =>
       IF Len(last'.arg) > 0
       THEN file' = Some(last'.arg[1]) /\ error' = NULL
       ELSE UNCHANGED session]_vars

\* A list of two different files was dropped over another selection.
C7_Witness ==
  /\ last.op = "drop"
  /\ Len(last.arg) = 2
  /\ last.arg[1] # last.arg[2]
  /\ file = Some(last.arg[1])
  /\ error = NULL

\* C8: handleAnalyze with no file selected changes none of the four cells,
\* an existing result or error included, and issues no request.
C8_AnalyzeWithoutFileNoOp ==
  [][(last'.op = "analyze" /\ file = NULL) => UNCHANGED session]_vars

\* handleAnalyze has run with no file while a result and an error existed.
C8_Witness ==
  /\ last.op = "analyze"
  /\ file = NULL
  /\ result # NULL
  /\ error # NULL

\* C9: right after a 2xx response whose body parsed, isLoading is false,
\* result is the parsed body and error is null.
C9_SuccessSettlement ==
  last.op = "jsonResolved" =>
    isLoading = FALSE /\ result = Some(last.arg) /\ error = NULL

\* A body has just been parsed for a request whose file was replaced
\* meanwhile.
C9_Witness ==
  /\ last.op = "jsonResolved"
  /\ result = Some(last.arg)
  /\ file # Some(last.req.file)

\* C10: right after a non-2xx response, isLoading is false, result is
\* null, error is a message containing the status text, and
\* response.json() was not called on the response.
C10_ServerErrorSettlement ==
  last.op = "responseNotOk" =>
    /\ isLoading = FALSE
    /\ result = NULL
    /\ error # NULL
    /\ Contains(error[1], last.arg)
    /\ ~last.req.jsonCalled

\* A non-2xx response with a status text has just settled.
C10_Witness ==
  /\ last.op = "responseNotOk"
  /\ last.arg = <<"Internal", "Server", "Error">>
  /\ error = Some(<<"Server", "error:", "Internal", "Server", "Error">>)

\* C11: right after fetch or response.json() has thrown, isLoading is
\* false, result is null and error is a non-empty text: the message of the
\* thrown value, or the fallback text when that message is missing or
\* empty.
C11_ThrownFailureSettlement ==
  last.op \in {"fetchRejected", "jsonRejected"} =>
    /\ isLoading = FALSE
    /\ result = NULL
    /\ error # NULL
    /\ error[1] # <<>>
    /\ error[1] = IF last.arg.message \in {NULL, Some(<<>>)}
                  THEN Fallback
                  ELSE last.arg.message[1]

\* response.json() has thrown a value with an empty message and the
\* fallback text is shown.
C11_Witness ==
  /\ last.op = "jsonRejected"
  /\ last.arg.message = Some(<<>>)
  /\ error = Some(Fallback)

\* C12: there is no automatic retry.  The number of fetch calls equals the
\* number of accepted Analyze clicks; a request is issued only by a step
\* that is a click on Analyze; a failed settlement ends its invocation,
\* issues nothing and keeps the file, so that the Analyze button is
\* rendered and enabled right after it.
C12_NoAutomaticRetry ==
  /\ [](requests = clicks)
  /\ [][(Len(pending') > Len(pending) \/ requests' # requests) =>
          last'.op = "analyze"]_vars
  /\ [][last'.op \in Failures =>
          /\ file' = file
          /\ requests' = requests
          /\ Len(pending') = Len(pending) - 1]_vars
  /\ [](last.op \in Failures =>
          file # NULL /\ AnalyzeButtonRendered /\ ~AnalyzeButtonDisabled)

\* The second request has just failed: two clicks, two fetch calls, nothing
\* in flight, the file still selected.
C12_Witness ==
  /\ last.op \in Failures
  /\ clicks = 2
  /\ requests = 2
  /\ pending = <<>>
  /\ file # NULL

\* The states of the session named by the claims.
Idle == file = NULL /\ result = NULL /\ error = NULL /\ ~isLoading

Succeeded == result # NULL

Failed == error # NULL /\ result = NULL

\* An upper bound on the number of steps from a state to Idle: Reset from
\* a shown result, the body from a parsed response, the response from a
\* sent request, a click on Analyze from anything else.
DistanceToIdle ==
  IF Idle THEN 0
  ELSE IF result # NULL THEN 1
  ELSE IF pending # <<>> /\ pending[1].stage = "json" THEN 2
  ELSE IF pending # <<>> THEN 3
  ELSE 4

\* Every state but Idle has a step of the rendered page that brings it
\* closer to Idle.  Holding in every reachable state, this gives, by
\* induction on the distance, a sequence of steps from the state to Idle.
CanApproachIdle == Idle \/ ENABLED (Next /\ DistanceToIdle' < DistanceToIdle)

\* C13 as stated: the machine has no terminal state (from every reachable
\* state some sequence of user actions and settlements leads back to
\* Idle), and Reset is available in Succeeded and in Failed.
C13_ResetInSucceededAndFailed ==
  /\ CanApproachIdle
  /\ (Succeeded \/ Failed) => ResetButtonRendered

\* C13 amended: the machine has no terminal state, and Reset is available
\* in Succeeded only; in Failed no Reset is rendered, the Analyze button is
\* rendered and enabled, and the way back to Idle starts with it.
C13_NoTerminalState ==
  /\ CanApproachIdle
  /\ Succeeded => ResetButtonRendered
  /\ Failed =>
       /\ ~ResetButtonRendered
       /\ AnalyzeButtonRendered
       /\ ~AnalyzeButtonDisabled

\* A request has failed: an error is shown, no result, four steps from Idle.
C13_Witness == Failed /\ last.op \in Failures /\ DistanceToIdle = 4

\* C14: there is no stale-response guard.  A settlement that arrives after
\* the selection has moved on from the file of its request is applied all
\* the same: a parsed body becomes the result, a failure becomes the error.
C14_StaleSettlementApplied ==
  [][(last'.op \in Failures \cup {"jsonResolved"}
        /\ file # Some(last'.req.file)) =>
       /\ file' = file
       /\ last'.op = "jsonResolved" => result' = Some(last'.arg)
       /\ last'.op \in Failures => error' # NULL]_vars

\* The result shown was computed for a.wav while b.mp3 is the selected file.
C14_Witness ==
  /\ last.op = "jsonResolved"
  /\ last.req.file = "a.wav"
  /\ file = Some("b.mp3")
  /\ result # NULL

\* C15: when every request in flight is eventually settled, a loading
\* session (an accepted Analyze click) is eventually followed by a state
\* that is not loading and in which the Analyze button or the Reset button
\* can be clicked; and only a settlement ends the loading (there is no
\* timeout), so without that assumption the session may load forever.
C15_LoadingEnds ==
  /\ isLoading ~>
       (/\ ~isLoading
        /\ \/ AnalyzeButtonRendered /\ ~AnalyzeButtonDisabled
           \/ ResetButtonRendered)
  /\ [][(isLoading /\ ~isLoading') =>
          last'.op \in Failures \cup {"jsonResolved"}]_vars

\* A request is in flight right after an accepted click.
C15_Witness ==
  /\ last.op = "analyze"
  /\ isLoading
  /\ Len(pending) = 1
  /\ pending[1].stage = "fetch"

\* C16: a drop changes only the file and the error: the result and
\* isLoading stay as they were, also when a result is present, and no
\* request is issued.
C16_DropFrame ==
  [][last'.op = "drop" =>
       /\ result' = result
       /\ isLoading' = isLoading
       /\ pending' = pending
       /\ requests' = requests]_vars

\* A file was dropped while a result was present, and the result is still
\* there.
C16_Witness ==
  /\ last.op = "drop"
  /\ Len(last.arg) > 0
  /\ file = Some(last.arg[1])
  /\ result # NULL

\* C17: on the rendered page every loading state has no result, no error
\* and a selected file.
C17_LoadingShape ==
  isLoading => result = NULL /\ error = NULL /\ file # NULL

\* The selection was replaced while the request was in flight.
C17_Witness ==
  /\ isLoading
  /\ last.op = "drop"
  /\ file # Some(pending[1].file)

\* C18: on the rendered page a state with no file selected is empty: no
\* result, no error, not loading.
C18_NoFileIsEmpty ==
  file = NULL => result = NULL /\ error = NULL /\ ~isLoading

\* Reset has just been clicked after an analysis.
C18_Witness == file = NULL /\ last.op = "reset" /\ requests > 0

\* C19: the confidence shown with a result is the probability of the
\* predicted class times 100, to two decimals: the spoof percentage when
\* the prediction is spoof, the bonafide percentage when it is bonafide,
\* whichever of the two is larger.
C19_ConfidenceOfPrediction ==
  result # NULL =>
    LET r == result[1]
        shown == confidence(r)[1] * 100 + confidence(r)[2]
        exact == r.probabilities[r.prediction] * 100
    IN  /\ r.prediction = "spoof" => confidence(r) = spoofPercent(r)
        /\ r.prediction = "bonafide" => confidence(r) = bonafidePercent(r)
        /\ shown * 1000 - 500 <= exact
        /\ exact < shown * 1000 + 500

\* A result is shown whose predicted class is the less likely one: the
\* confidence reads 40.00 while the other class stands at 60.00.
C19_Witness ==
  /\ result # NULL
  /\ result[1].prediction = "spoof"
  /\ result[1].probabilities.spoof < result[1].probabilities.bonafide
  /\ confidence(result[1]) = <<40, 0>>
  /\ bonafidePercent(result[1]) = <<60, 0>>

=============================================================================
